---- MODULE Spec2Model ----
(***************************************************************************)
(* Model of the little-sorry regret-minimisation engine: the six regret   *)
(* matcher variants (src/src/cfr_plus.rs, dcfr.rs, dcfr_plus.rs,           *)
(* linear_cfr.rs, pcfr_plus.rs, pdcfr_plus.rs), the discount policy        *)
(* (src/src/discount.rs) and the shared helpers                            *)
(* (src/src/regret_minimizer.rs).                                          *)
(*                                                                         *)
(* Numbers.  The code computes in f32.  The model computes in exact        *)
(* rationals <<n, d>> (d > 0, lowest terms); a division by zero yields the *)
(* IEEE specials NaN = <<0,0>>, +inf = <<1,0>>, -inf = <<-1,0>>.  Rounding *)
(* and overflow of f32 are outside the model.  powf is modelled for        *)
(* integer exponents only, so the matchers are constructed with integer    *)
(* discount exponents (new_with_params).                                   *)
(***************************************************************************)
EXTENDS Integers, Sequences, FiniteSets, TLC

VARIABLES
    matcher,     \* the matcher object (a record), or NoMatcher
    status,      \* "unconstructed" | "ok" | "err" : result of the last call
    requested,   \* the num_experts argument given to the constructor
    rewards,     \* the reward slice given to the last update_regret call
    prev,        \* the matcher as it was before the last update_regret call
    calls,       \* number of update_regret calls made on the matcher
    fn_in,       \* input of a helper-function call (specification SpecFn)
    fn_out,      \* its result, or Pending
    twin,        \* a second object fed the same rewards as matcher (SpecTwin)
    runner,      \* the RPSRunnerGeneric object, or NoRunner (SpecRps)
    runner_prev, \* the runner as it was before its last operation
    last_op,     \* "none" | "run_one" | "update_regret" | "failed"
    sampled,     \* the pairs <<a1, a2>> sampled by run_one since the last flush
    run_ones,    \* number of run_one calls made on the runner
    flushes      \* number of successful update_regret calls made on the runner

matcher_vars == <<matcher, status, requested, rewards, prev, calls>>

fn_vars == <<fn_in, fn_out>>

harness_vars == <<runner, runner_prev, last_op, sampled, run_ones, flushes>>

vars == <<matcher, status, requested, rewards, prev, calls, fn_in, fn_out,
          twin, runner, runner_prev, last_op, sampled, run_ones, flushes>>

\* ------------------------------------------------------------------ bounds
MaxN == 2
MaxUpdates == 2
MaxT == 4
MaxLen == 3
SampleDen == 4
MaxIndex == 5

RewardValues == {-1, 0, 1}
RegretValues == {-5, -1, 0, 3, 7}
BufferValues == {0, 1}
Exps == {-1, 0, 1, 2}

\* --------------------------------------------------- exact rational numbers
Abs(x) == IF x < 0 THEN -x ELSE x

Sign(x) == IF x < 0 THEN -1 ELSE IF x > 0 THEN 1 ELSE 0

RECURSIVE GCD(_, _)
GCD(a, b) == IF b = 0 THEN a ELSE GCD(b, a % b)

Norm(n, d) ==
    IF d = 0 THEN <<Sign(n), 0>>
    ELSE LET g == GCD(Abs(n), Abs(d))
             s == IF d < 0 THEN -1 ELSE 1
         IN  <<(s * n) \div g, (s * d) \div g>>

Zero == <<0, 1>>
One == <<1, 1>>
NaN == <<0, 0>>

FromInt(k) == <<k, 1>>

IsFinite(x) == x[2] # 0

IsNaN(x) == x[1] = 0 /\ x[2] = 0

\* the operands are brought to their least common denominator, and products
\* are cross-reduced first, so that the intermediate integers stay small
RAdd(x, y) ==
    IF ~IsFinite(x) /\ ~IsFinite(y) THEN (IF x[1] = y[1] THEN x ELSE NaN)
    ELSE IF ~IsFinite(x) THEN x
    ELSE IF ~IsFinite(y) THEN y
    ELSE LET g == GCD(x[2], y[2])
         IN  Norm(x[1] * (y[2] \div g) + y[1] * (x[2] \div g), (x[2] \div g) * y[2])

RNeg(x) == <<-x[1], x[2]>>

RSub(x, y) == RAdd(x, RNeg(y))

RMul(x, y) ==
    IF ~IsFinite(x) \/ ~IsFinite(y) THEN <<Sign(x[1]) * Sign(y[1]), 0>>
    ELSE LET g1 == GCD(Abs(x[1]), y[2])
             g2 == GCD(Abs(y[1]), x[2])
         IN  Norm((x[1] \div g1) * (y[1] \div g2), (x[2] \div g2) * (y[2] \div g1))

\* f32 division: x / 0 is NaN for x = 0 and an infinity otherwise
RDiv(x, y) ==
    IF ~IsFinite(y) THEN (IF IsFinite(x) /\ ~IsNaN(y) THEN Zero ELSE NaN)
    ELSE IF y[1] = 0 THEN <<Sign(x[1]), 0>>
    ELSE RMul(x, IF y[1] < 0 THEN <<-y[2], -y[1]>> ELSE <<y[2], y[1]>>)

\* comparisons with a NaN operand are false, as in f32
RLess(x, y) ==
    /\ ~IsNaN(x) /\ ~IsNaN(y)
    /\ IF ~IsFinite(x) \/ ~IsFinite(y)
       THEN (IF ~IsFinite(x) THEN x[1] < 0 /\ y # x ELSE y[1] > 0)
       ELSE LET g == GCD(x[2], y[2])
            IN  x[1] * (y[2] \div g) < y[1] * (x[2] \div g)

RLeq(x, y) == ~IsNaN(x) /\ ~IsNaN(y) /\ (x = y \/ RLess(x, y))

\* f32::max(0.0, v)
Max0(v) == IF RLess(Zero, v) THEN v ELSE Zero

\* base^e for an integer base >= 1 and an integer exponent (f32::powf)
RECURSIVE IntPow(_, _)
IntPow(b, e) == IF e = 0 THEN 1 ELSE b * IntPow(b, e - 1)

Powf(x, e) ==
    IF e >= 0 THEN Norm(IntPow(x[1], e), IntPow(x[2], e))
    ELSE Norm(IntPow(x[2], -e), IntPow(x[1], -e))

\* ------------------------------------------------------------------ vectors
RECURSIVE SumTo(_, _)
SumTo(v, k) == IF k = 0 THEN Zero ELSE RAdd(SumTo(v, k - 1), v[k])

VSum(v) == SumTo(v, Len(v))

Zeros(n) == [i \in 1..n |-> Zero]

VAdd(a, b) == [i \in 1..Len(a) |-> RAdd(a[i], b[i])]

VScale(a, s) == [i \in 1..Len(a) |-> RMul(a[i], s)]

VDiv(a, s) == [i \in 1..Len(a) |-> RDiv(a[i], s)]

VSubScalar(a, s) == [i \in 1..Len(a) |-> RSub(a[i], s)]

VMax0(a) == [i \in 1..Len(a) |-> Max0(a[i])]

dot(a, b) == SumTo([i \in 1..Len(a) |-> RMul(a[i], b[i])], Len(a))

IntVec(v) == [i \in 1..Len(v) |-> FromInt(v[i])]

\* all integer vectors of length n over the value set S
Vectors(n, S) == [1..n -> S]

\* ------------------------------------------------- shared helper functions
\* uniform_weights / init_weights: vec![1.0 / n as f32; n]
uniform_weights(n) == [i \in 1..n |-> Norm(1, n)]

init_weights(num_experts) == [i \in 1..num_experts |-> Norm(1, num_experts)]

\* uniform_fill: every slot of p becomes 1 / p.len()
uniform_fill(p) == [i \in 1..Len(p) |-> Norm(1, Len(p))]

\* normalize_inplace: uniform when the sum is <= 0, else p[i] * (1 / sum)
normalize_inplace(p) ==
    LET sum == VSum(p)
    IN  IF RLeq(sum, Zero) THEN uniform_fill(p)
        ELSE VScale(p, RDiv(One, sum))

\* regret_match that forgets to clip the negative regrets
regret_match_unclipped(regrets, p) ==
    LET k == IF Len(regrets) < Len(p) THEN Len(regrets) ELSE Len(p)
        copied == [i \in 1..Len(p) |-> IF i <= k THEN regrets[i] ELSE p[i]]
    IN  normalize_inplace(copied)

\* regret_match: p[i] = max(0, regrets[i]) for the zipped prefix, then
\* normalize_inplace(p)
regret_match(regrets, p) ==
    LET k == IF Len(regrets) < Len(p) THEN Len(regrets) ELSE Len(p)
        clipped == [i \in 1..Len(p) |-> IF i <= k THEN Max0(regrets[i]) ELSE p[i]]
    IN  normalize_inplace(clipped)

\* normalize_by_sum: uniform when the sum is <= 0, else v * (1 / sum)
normalize_by_sum(sum_p) ==
    LET sum == VSum(sum_p)
    IN  IF RLeq(sum, Zero) THEN uniform_weights(Len(sum_p))
        ELSE VScale(sum_p, RDiv(One, sum))

\* sample_action that compares with r <= cumsum
RECURSIVE SampleFromLeq(_, _, _, _)
SampleFromLeq(p, r, i, cumsum) ==
    IF i > Len(p) THEN Len(p) - 1
    ELSE LET c == RAdd(cumsum, p[i])
         IN  IF RLeq(r, c) THEN i - 1 ELSE SampleFromLeq(p, r, i + 1, c)

sample_action_leq(p, r) == SampleFromLeq(p, r, 1, Zero)

\* sample_action: cumulative scan; r is the draw in [0, 1).  Indices are
\* 0-based as in the code.
RECURSIVE SampleFrom(_, _, _, _)
SampleFrom(p, r, i, cumsum) ==
    IF i > Len(p) THEN Len(p) - 1
    ELSE LET c == RAdd(cumsum, p[i])
         IN  IF RLess(r, c) THEN i - 1 ELSE SampleFrom(p, r, i + 1, c)

sample_action(p, r) == SampleFrom(p, r, 1, Zero)

\* discount_factor that divides by t + 1 instead of t^exp + 1
discount_factor_wrong_denominator(t, exp) ==
    LET t_pow == Powf(FromInt(t), exp)
    IN  RDiv(t_pow, RAdd(FromInt(t), One))

\* DiscountParams::discount_factor: t^exp / (t^exp + 1)
discount_factor(t, exp) ==
    LET t_pow == Powf(FromInt(t), exp)
    IN  RDiv(t_pow, RAdd(t_pow, One))

\* WeightedAliasIndex::new: rejects an empty vector, a negative (or NaN)
\* weight and a zero total
WeightedAliasIndexNew(w) ==
    /\ Len(w) > 0
    /\ \A i \in 1..Len(w) : IsFinite(w[i]) /\ RLeq(Zero, w[i])
    /\ RLess(Zero, VSum(w))

\* ------------------------------------------------------------ the matchers
NoMatcher == [variant |-> "none"]

Variants == {"CfrPlus", "Dcfr", "DcfrPlus", "LinearCfr", "PcfrPlus", "PdcfrPlus"}

NoParams == [alpha |-> 0, beta |-> 0, gamma |-> 0]

\* DiscountParams::LCFR and a custom integer-exponent parameter set
LCFR == [alpha |-> 1, beta |-> 1, gamma |-> 1]

ParamChoices == {LCFR, [alpha |-> 2, beta |-> 0, gamma |-> 2]}

\* the struct literal shared by the constructors: dist is the weight vector
\* the sampler was built from
Fresh(variant, params, p) ==
    [variant |-> variant, params |-> params,
     p |-> p, sum_p |-> Zeros(Len(p)),
     cumulative_regret |-> Zeros(Len(p)),
     expert_reward |-> Zeros(Len(p)), cumulative_reward |-> Zero,
     last_instantaneous_regret |-> Zeros(Len(p)),
     dist |-> p, num_updates |-> 0]

Failed(m) == [ok |-> FALSE, m |-> m]

Ok(m) == [ok |-> TRUE, m |-> m]

\* CfrPlusRegretMatcher::new_from_p
CfrPlusNewFromP(p) ==
    IF ~WeightedAliasIndexNew(p) THEN Failed(NoMatcher)
    ELSE Ok(Fresh("CfrPlus", NoParams, p))

\* CfrPlusRegretMatcher::new
CfrPlusNew(num_experts) == CfrPlusNewFromP(init_weights(num_experts))

\* new_with_params that drops the sampler's error
DcfrNewUnchecked(num_experts, params) ==
    Ok(Fresh("Dcfr", params, init_weights(num_experts)))

\* DiscountedRegretMatcher::new_with_params
DcfrNewWithParams(num_experts, params) ==
    LET p == init_weights(num_experts)
    IN  IF ~WeightedAliasIndexNew(p) THEN Failed(NoMatcher)
        ELSE Ok(Fresh("Dcfr", params, p))

\* DcfrPlusRegretMatcher::new_with_params
DcfrPlusNewWithParams(num_experts, alpha, gamma) ==
    LET p == init_weights(num_experts)
    IN  IF ~WeightedAliasIndexNew(p) THEN Failed(NoMatcher)
        ELSE Ok(Fresh("DcfrPlus", [alpha |-> alpha, beta |-> 0, gamma |-> gamma], p))

\* LinearCfrRegretMatcher::new
LinearCfrNew(num_experts) ==
    LET p == init_weights(num_experts)
    IN  IF ~WeightedAliasIndexNew(p) THEN Failed(NoMatcher)
        ELSE Ok(Fresh("LinearCfr", NoParams, p))

\* PcfrPlusRegretMatcher::new
PcfrPlusNew(num_experts) ==
    LET p == init_weights(num_experts)
    IN  IF ~WeightedAliasIndexNew(p) THEN Failed(NoMatcher)
        ELSE Ok(Fresh("PcfrPlus", NoParams, p))

\* PdcfrPlusRegretMatcher::new_with_params
PdcfrPlusNewWithParams(num_experts, alpha, gamma) ==
    LET p == init_weights(num_experts)
    IN  IF ~WeightedAliasIndexNew(p) THEN Failed(NoMatcher)
        ELSE Ok(Fresh("PdcfrPlus", [alpha |-> alpha, beta |-> 0, gamma |-> gamma], p))

\* the last two statements of every update_regret:
\*   self.dist = WeightedAliasIndex::new(self.p.to_vec())?;  Ok(())
\* on an error the fields already written stay written and dist stays as it was
RebuildDistStale(m) ==
    IF WeightedAliasIndexNew(m.p) THEN Ok(m) ELSE Failed(m)

RebuildDist(m) ==
    IF WeightedAliasIndexNew(m.p) THEN Ok([m EXCEPT !.dist = m.p])
    ELSE Failed(m)

\* ------------------------------------------------------------ update_regret
\* CFR+: the clipped regrets computed by a call (capped_regret)
CfrPlusCapped(m, reward_array) ==
    LET r == dot(m.p, reward_array)
        cumulative_reward == RAdd(m.cumulative_reward, r)
        expert_reward == VAdd(m.expert_reward, reward_array)
        regret == VSubScalar(expert_reward, cumulative_reward)
    IN  VMax0(regret)

\* update_regret that counts the update on the reset path too
CfrPlusUpdateCountsReset(m, reward_array) ==
    LET num_experts == Len(m.p)
        cumulative_reward == RAdd(m.cumulative_reward, dot(m.p, reward_array))
        expert_reward == VAdd(m.expert_reward, reward_array)
        capped_regret == CfrPlusCapped(m, reward_array)
        regret_sum == VSum(capped_regret)
        p == VDiv(capped_regret, regret_sum)
    IN  IF RLeq(regret_sum, Zero)
        THEN RebuildDist([m EXCEPT !.p = init_weights(num_experts),
                                   !.cumulative_reward = Zero,
                                   !.expert_reward = Zeros(num_experts),
                                   !.num_updates = m.num_updates + 1])
        ELSE RebuildDist([m EXCEPT !.p = p,
                                   !.cumulative_reward = cumulative_reward,
                                   !.expert_reward = expert_reward,
                                   !.sum_p = VAdd(m.sum_p, p),
                                   !.num_updates = m.num_updates + 1])

\* update_regret whose reset branch keeps the accumulated rewards
CfrPlusUpdateKeepsRewardsOnReset(m, reward_array) ==
    LET num_experts == Len(m.p)
        cumulative_reward == RAdd(m.cumulative_reward, dot(m.p, reward_array))
        expert_reward == VAdd(m.expert_reward, reward_array)
        capped_regret == CfrPlusCapped(m, reward_array)
        regret_sum == VSum(capped_regret)
        p == VDiv(capped_regret, regret_sum)
    IN  IF RLeq(regret_sum, Zero)
        THEN RebuildDist([m EXCEPT !.p = init_weights(num_experts),
                                   !.cumulative_reward = cumulative_reward,
                                   !.expert_reward = expert_reward,
                                   !.num_updates = 0])
        ELSE RebuildDist([m EXCEPT !.p = p,
                                   !.cumulative_reward = cumulative_reward,
                                   !.expert_reward = expert_reward,
                                   !.sum_p = VAdd(m.sum_p, p),
                                   !.num_updates = m.num_updates + 1])

\* CfrPlusRegretMatcher::update_regret
CfrPlusUpdateRegret(m, reward_array) ==
    LET num_experts == Len(m.p)
        r == dot(m.p, reward_array)
        cumulative_reward == RAdd(m.cumulative_reward, r)
        expert_reward == VAdd(m.expert_reward, reward_array)
        capped_regret == CfrPlusCapped(m, reward_array)
        regret_sum == VSum(capped_regret)
        p == VDiv(capped_regret, regret_sum)
    IN  IF RLeq(regret_sum, Zero)
        THEN RebuildDist([m EXCEPT !.p = init_weights(num_experts),
                                   !.cumulative_reward = Zero,
                                   !.expert_reward = Zeros(num_experts),
                                   !.num_updates = 0])
        ELSE RebuildDist([m EXCEPT !.p = p,
                                   !.cumulative_reward = cumulative_reward,
                                   !.expert_reward = expert_reward,
                                   !.sum_p = VAdd(m.sum_p, p),
                                   !.num_updates = m.num_updates + 1])

\* instantaneous regret: reward[i] - dot(p, rewards)
InstantaneousRegret(m, reward_array) ==
    VSubScalar(reward_array, dot(m.p, reward_array))

\* the strategy left unnormalised
StrategyUnnormalised(positive_regret) ==
    LET regret_sum == VSum(positive_regret)
    IN  IF RLeq(regret_sum, Zero) THEN init_weights(Len(positive_regret))
        ELSE positive_regret

\* the strategy derived from a vector of clipped regrets: uniform when their
\* sum is <= 0, else the vector over its sum
StrategyFrom(positive_regret) ==
    LET regret_sum == VSum(positive_regret)
    IN  IF RLeq(regret_sum, Zero) THEN init_weights(Len(positive_regret))
        ELSE VDiv(positive_regret, regret_sum)

\* the regret update with the two discounts exchanged
DcfrRegretSwappedDiscounts(m, reward_array) ==
    LET t == m.num_updates + 1
        positive_discount == discount_factor(t, m.params.beta)
        negative_discount == discount_factor(t, m.params.alpha)
        instantaneous_regret == InstantaneousRegret(m, reward_array)
    IN  [i \in 1..Len(m.p) |->
            LET discount == IF RLess(Zero, m.cumulative_regret[i])
                            THEN positive_discount ELSE negative_discount
            IN  RAdd(RMul(m.cumulative_regret[i], discount), instantaneous_regret[i])]

\* DCFR: cumulative regret after the sign-dependent discount
DcfrRegret(m, reward_array) ==
    LET t == m.num_updates + 1
        positive_discount == discount_factor(t, m.params.alpha)
        negative_discount == discount_factor(t, m.params.beta)
        instantaneous_regret == InstantaneousRegret(m, reward_array)
    IN  [i \in 1..Len(m.p) |->
            LET discount == IF RLess(Zero, m.cumulative_regret[i])
                            THEN positive_discount ELSE negative_discount
            IN  RAdd(RMul(m.cumulative_regret[i], discount), instantaneous_regret[i])]

\* update_regret that counts only the updates that found a positive regret
DcfrUpdateSkipsCount(m, reward_array) ==
    LET t == m.num_updates + 1
        strategy_discount ==
            Powf(RDiv(FromInt(t), RAdd(FromInt(t), One)), m.params.gamma)
        cumulative_regret == DcfrRegret(m, reward_array)
        positive_regret == VMax0(cumulative_regret)
        p == StrategyFrom(positive_regret)
    IN  RebuildDist([m EXCEPT !.cumulative_regret = cumulative_regret,
                              !.p = p,
                              !.sum_p = VAdd(VScale(m.sum_p, strategy_discount), p),
                              !.num_updates =
                                  IF RLeq(VSum(positive_regret), Zero)
                                  THEN m.num_updates ELSE m.num_updates + 1])

\* update_regret that discounts sum_p by ((t-1)/t)^gamma
DcfrUpdateLaggedStrategyDiscount(m, reward_array) ==
    LET t == m.num_updates + 1
        strategy_discount ==
            Powf(RDiv(FromInt(t - 1), FromInt(t)), m.params.gamma)
        cumulative_regret == DcfrRegret(m, reward_array)
        p == StrategyFrom(VMax0(cumulative_regret))
    IN  RebuildDist([m EXCEPT !.cumulative_regret = cumulative_regret,
                              !.p = p,
                              !.sum_p = VAdd(VScale(m.sum_p, strategy_discount), p),
                              !.num_updates = m.num_updates + 1])

\* DiscountedRegretMatcher::update_regret
DcfrUpdateRegret(m, reward_array) ==
    LET t == m.num_updates + 1
        strategy_discount ==
            Powf(RDiv(FromInt(t), RAdd(FromInt(t), One)), m.params.gamma)
        cumulative_regret == DcfrRegret(m, reward_array)
        p == StrategyFrom(VMax0(cumulative_regret))
    IN  RebuildDist([m EXCEPT !.cumulative_regret = cumulative_regret,
                              !.p = p,
                              !.sum_p = VAdd(VScale(m.sum_p, strategy_discount), p),
                              !.num_updates = m.num_updates + 1])

\* DCFR+ / PDCFR+: regret discount d(t-1, alpha), 0 on the first iteration
PrevRegretDiscount(m) ==
    LET t == m.num_updates + 1
    IN  IF t > 1 THEN discount_factor(t - 1, m.params.alpha) ELSE Zero

\* the strategy discount taken as (t/(t+1))^gamma
PlusStrategyDiscountOfNextIndex(m) ==
    LET t == m.num_updates + 1
    IN  Powf(RDiv(FromInt(t), FromInt(t + 1)), m.params.gamma)

\* DCFR+ / PDCFR+: strategy discount ((t-1)/t)^gamma, 0 on the first iteration
PlusStrategyDiscount(m) ==
    LET t == m.num_updates + 1
    IN  IF t > 1 THEN Powf(RDiv(FromInt(t - 1), FromInt(t)), m.params.gamma)
        ELSE Zero

\* the regret update that clips the discounted regret before it adds r
DcfrPlusRegretClipsBeforeAdding(m, reward_array) ==
    LET regret_discount == PrevRegretDiscount(m)
        instantaneous_regret == InstantaneousRegret(m, reward_array)
    IN  [i \in 1..Len(m.p) |->
            RAdd(Max0(RMul(m.cumulative_regret[i], regret_discount)),
                 instantaneous_regret[i])]

\* DCFR+ / PDCFR+: R = max(0, R * d(t-1, alpha) + r)
DcfrPlusRegret(m, reward_array) ==
    LET regret_discount == PrevRegretDiscount(m)
        instantaneous_regret == InstantaneousRegret(m, reward_array)
    IN  [i \in 1..Len(m.p) |->
            Max0(RAdd(RMul(m.cumulative_regret[i], regret_discount),
                      instantaneous_regret[i]))]

\* update_regret without the uniform fallback
DcfrPlusUpdateNoFallback(m, reward_array) ==
    LET cumulative_regret == DcfrPlusRegret(m, reward_array)
        p == VDiv(cumulative_regret, VSum(cumulative_regret))
    IN  RebuildDist([m EXCEPT !.cumulative_regret = cumulative_regret,
                              !.p = p,
                              !.sum_p = VAdd(VScale(m.sum_p, PlusStrategyDiscount(m)), p),
                              !.num_updates = m.num_updates + 1])

\* DcfrPlusRegretMatcher::update_regret
DcfrPlusUpdateRegret(m, reward_array) ==
    LET cumulative_regret == DcfrPlusRegret(m, reward_array)
        p == StrategyFrom(cumulative_regret)
    IN  RebuildDist([m EXCEPT !.cumulative_regret = cumulative_regret,
                              !.p = p,
                              !.sum_p = VAdd(VScale(m.sum_p, PlusStrategyDiscount(m)), p),
                              !.num_updates = m.num_updates + 1])

\* update_regret that restarts the average strategy when it falls back to
\* the uniform strategy
LinearCfrUpdateResetsOnFallback(m, reward_array) ==
    LET t == FromInt(m.num_updates + 1)
        instantaneous_regret == InstantaneousRegret(m, reward_array)
        cumulative_regret == VAdd(m.cumulative_regret, VScale(instantaneous_regret, t))
        positive_regret == VMax0(cumulative_regret)
        p == StrategyFrom(positive_regret)
    IN  IF RLeq(VSum(positive_regret), Zero)
        THEN RebuildDist([m EXCEPT !.cumulative_regret = Zeros(Len(m.p)),
                                   !.p = p,
                                   !.sum_p = Zeros(Len(m.p)),
                                   !.num_updates = m.num_updates + 1])
        ELSE RebuildDist([m EXCEPT !.cumulative_regret = cumulative_regret,
                                   !.p = p,
                                   !.sum_p = VAdd(m.sum_p, VScale(p, t)),
                                   !.num_updates = m.num_updates + 1])

\* update_regret without the iteration weight t
LinearCfrUpdateUnweighted(m, reward_array) ==
    LET instantaneous_regret == InstantaneousRegret(m, reward_array)
        cumulative_regret == VAdd(m.cumulative_regret, instantaneous_regret)
        p == StrategyFrom(VMax0(cumulative_regret))
    IN  RebuildDist([m EXCEPT !.cumulative_regret = cumulative_regret,
                              !.p = p,
                              !.sum_p = VAdd(m.sum_p, p),
                              !.num_updates = m.num_updates + 1])

\* LinearCfrRegretMatcher::update_regret
LinearCfrUpdateRegret(m, reward_array) ==
    LET t == FromInt(m.num_updates + 1)
        instantaneous_regret == InstantaneousRegret(m, reward_array)
        cumulative_regret == VAdd(m.cumulative_regret, VScale(instantaneous_regret, t))
        p == StrategyFrom(VMax0(cumulative_regret))
    IN  RebuildDist([m EXCEPT !.cumulative_regret = cumulative_regret,
                              !.p = p,
                              !.sum_p = VAdd(m.sum_p, VScale(p, t)),
                              !.num_updates = m.num_updates + 1])

\* PCFR+: R = max(0, R + r)
PcfrPlusRegret(m, reward_array) ==
    VMax0(VAdd(m.cumulative_regret, InstantaneousRegret(m, reward_array)))

\* update_regret that takes the weighted strategy out of sum_p
PcfrPlusUpdateSubtractsStrategy(m, reward_array) ==
    LET t == m.num_updates + 1
        instantaneous_regret == InstantaneousRegret(m, reward_array)
        cumulative_regret == PcfrPlusRegret(m, reward_array)
        predicted_regret == VMax0(VAdd(cumulative_regret, instantaneous_regret))
        p == StrategyFrom(predicted_regret)
        weight == FromInt(t * t)
    IN  RebuildDist([m EXCEPT !.cumulative_regret = cumulative_regret,
                              !.last_instantaneous_regret = instantaneous_regret,
                              !.p = p,
                              !.sum_p = VAdd(m.sum_p, VScale(p, RNeg(weight))),
                              !.num_updates = m.num_updates + 1])

\* update_regret that derives the strategy from the stored regret, without
\* the prediction
PcfrPlusUpdateWithoutPrediction(m, reward_array) ==
    LET t == m.num_updates + 1
        instantaneous_regret == InstantaneousRegret(m, reward_array)
        cumulative_regret == PcfrPlusRegret(m, reward_array)
        p == StrategyFrom(cumulative_regret)
        weight == FromInt(t * t)
    IN  RebuildDist([m EXCEPT !.cumulative_regret = cumulative_regret,
                              !.last_instantaneous_regret = instantaneous_regret,
                              !.p = p,
                              !.sum_p = VAdd(m.sum_p, VScale(p, weight)),
                              !.num_updates = m.num_updates + 1])

\* update_regret that weights the strategy by t instead of t * t
PcfrPlusUpdateLinearWeight(m, reward_array) ==
    LET t == m.num_updates + 1
        instantaneous_regret == InstantaneousRegret(m, reward_array)
        cumulative_regret == PcfrPlusRegret(m, reward_array)
        predicted_regret == VMax0(VAdd(cumulative_regret, instantaneous_regret))
        p == StrategyFrom(predicted_regret)
        weight == FromInt(t)
    IN  RebuildDist([m EXCEPT !.cumulative_regret = cumulative_regret,
                              !.last_instantaneous_regret = instantaneous_regret,
                              !.p = p,
                              !.sum_p = VAdd(m.sum_p, VScale(p, weight)),
                              !.num_updates = m.num_updates + 1])

\* PcfrPlusRegretMatcher::update_regret
PcfrPlusUpdateRegret(m, reward_array) ==
    LET t == m.num_updates + 1
        instantaneous_regret == InstantaneousRegret(m, reward_array)
        cumulative_regret == PcfrPlusRegret(m, reward_array)
        predicted_regret == VMax0(VAdd(cumulative_regret, instantaneous_regret))
        p == StrategyFrom(predicted_regret)
        weight == FromInt(t * t)
    IN  RebuildDist([m EXCEPT !.cumulative_regret = cumulative_regret,
                              !.last_instantaneous_regret = instantaneous_regret,
                              !.p = p,
                              !.sum_p = VAdd(m.sum_p, VScale(p, weight)),
                              !.num_updates = m.num_updates + 1])

\* update_regret that predicts with the discount d(t-1, alpha) of the
\* regret update
PdcfrPlusUpdatePredictsWithPrevDiscount(m, reward_array) ==
    LET instantaneous_regret == InstantaneousRegret(m, reward_array)
        cumulative_regret == DcfrPlusRegret(m, reward_array)
        predicted_regret ==
            VMax0(VAdd(VScale(cumulative_regret, PrevRegretDiscount(m)),
                       instantaneous_regret))
        p == StrategyFrom(predicted_regret)
    IN  RebuildDist([m EXCEPT !.cumulative_regret = cumulative_regret,
                              !.last_instantaneous_regret = instantaneous_regret,
                              !.p = p,
                              !.sum_p = VAdd(VScale(m.sum_p, PlusStrategyDiscount(m)), p),
                              !.num_updates = m.num_updates + 1])

\* PdcfrPlusRegretMatcher::update_regret
PdcfrPlusUpdateRegret(m, reward_array) ==
    LET t == m.num_updates + 1
        curr_regret_discount == discount_factor(t, m.params.alpha)
        instantaneous_regret == InstantaneousRegret(m, reward_array)
        cumulative_regret == DcfrPlusRegret(m, reward_array)
        predicted_regret ==
            VMax0(VAdd(VScale(cumulative_regret, curr_regret_discount),
                       instantaneous_regret))
        p == StrategyFrom(predicted_regret)
    IN  RebuildDist([m EXCEPT !.cumulative_regret = cumulative_regret,
                              !.last_instantaneous_regret = instantaneous_regret,
                              !.p = p,
                              !.sum_p = VAdd(VScale(m.sum_p, PlusStrategyDiscount(m)), p),
                              !.num_updates = m.num_updates + 1])

\* update_regret of the matcher's own variant
update_regret(m, reward_array) ==
    CASE m.variant = "CfrPlus" -> CfrPlusUpdateRegret(m, reward_array)
      [] m.variant = "Dcfr" -> DcfrUpdateRegret(m, reward_array)
      [] m.variant = "DcfrPlus" -> DcfrPlusUpdateRegret(m, reward_array)
      [] m.variant = "LinearCfr" -> LinearCfrUpdateRegret(m, reward_array)
      [] m.variant = "PcfrPlus" -> PcfrPlusUpdateRegret(m, reward_array)
      [] m.variant = "PdcfrPlus" -> PdcfrPlusUpdateRegret(m, reward_array)

\* --------------------------------------------------------------- best_weight
\* CfrPlusRegretMatcher::best_weight: sum_p / num_updates as f32
CfrPlusBestWeight(m) == VDiv(m.sum_p, FromInt(m.num_updates))

\* best_weight of DCFR, DCFR+, Linear CFR, PCFR+ and PDCFR+ (the same code in
\* each): uniform when sum_p sums to <= 0, else sum_p / sum
FamilyBestWeight(m) ==
    LET sum == VSum(m.sum_p)
    IN  IF RLeq(sum, Zero) THEN init_weights(Len(m.p))
        ELSE VDiv(m.sum_p, sum)

best_weight(m) ==
    IF m.variant = "CfrPlus" THEN CfrPlusBestWeight(m) ELSE FamilyBestWeight(m)

\* ------------------------------------------------------------------ actions
NoCall == [fn |-> "none"]

Pending == [done |-> FALSE]

Done(v) == [done |-> TRUE, value |-> v]

NoRunner == [made |-> FALSE]

\* no harness exists
HarnessIdle ==
    /\ runner = NoRunner
    /\ runner_prev = NoRunner
    /\ last_op = "none"
    /\ sampled = <<>>
    /\ run_ones = 0
    /\ flushes = 0

Init ==
    /\ matcher = NoMatcher
    /\ status = "unconstructed"
    /\ requested = 0
    /\ rewards = <<>>
    /\ prev = NoMatcher
    /\ calls = 0
    /\ fn_in = NoCall
    /\ fn_out = Pending
    /\ twin = NoMatcher
    /\ HarnessIdle

\* the caller's side of a constructor call returning res
Constructed(num_experts, res) ==
    /\ status = "unconstructed"
    /\ matcher' = res.m
    /\ status' = IF res.ok THEN "ok" ELSE "err"
    /\ requested' = num_experts
    /\ UNCHANGED <<rewards, prev, calls, fn_vars, twin, harness_vars>>

ConstructCfrPlus ==
    \E n \in 0..MaxN : Constructed(n, CfrPlusNew(n))

ConstructDcfr ==
    \E n \in 0..MaxN, params \in ParamChoices :
        Constructed(n, DcfrNewWithParams(n, params))

ConstructDcfrPlus ==
    \E n \in 0..MaxN, params \in ParamChoices :
        Constructed(n, DcfrPlusNewWithParams(n, params.alpha, params.gamma))

ConstructLinearCfr ==
    \E n \in 0..MaxN : Constructed(n, LinearCfrNew(n))

ConstructPcfrPlus ==
    \E n \in 0..MaxN : Constructed(n, PcfrPlusNew(n))

ConstructPdcfrPlus ==
    \E n \in 0..MaxN, params \in ParamChoices :
        Constructed(n, PdcfrPlusNewWithParams(n, params.alpha, params.gamma))

\* the caller's side of an update_regret call on a live matcher
Updated(reward_array, res) ==
    /\ matcher' = res.m
    /\ status' = IF res.ok THEN "ok" ELSE "err"
    /\ rewards' = reward_array
    /\ prev' = matcher
    /\ calls' = calls + 1
    /\ UNCHANGED <<requested, fn_vars, twin, harness_vars>>

CanUpdate(variant) ==
    /\ status = "ok"
    /\ matcher.variant = variant
    /\ calls < MaxUpdates

UpdateCfrPlus ==
    /\ CanUpdate("CfrPlus")
    /\ \E rew \in Vectors(Len(matcher.p), RewardValues) :
          Updated(IntVec(rew), CfrPlusUpdateRegret(matcher, IntVec(rew)))

UpdateDcfr ==
    /\ CanUpdate("Dcfr")
    /\ \E rew \in Vectors(Len(matcher.p), RewardValues) :
          Updated(IntVec(rew), DcfrUpdateRegret(matcher, IntVec(rew)))

UpdateDcfrPlus ==
    /\ CanUpdate("DcfrPlus")
    /\ \E rew \in Vectors(Len(matcher.p), RewardValues) :
          Updated(IntVec(rew), DcfrPlusUpdateRegret(matcher, IntVec(rew)))

UpdateLinearCfr ==
    /\ CanUpdate("LinearCfr")
    /\ \E rew \in Vectors(Len(matcher.p), RewardValues) :
          Updated(IntVec(rew), LinearCfrUpdateRegret(matcher, IntVec(rew)))

UpdatePcfrPlus ==
    /\ CanUpdate("PcfrPlus")
    /\ \E rew \in Vectors(Len(matcher.p), RewardValues) :
          Updated(IntVec(rew), PcfrPlusUpdateRegret(matcher, IntVec(rew)))

UpdatePdcfrPlus ==
    /\ CanUpdate("PdcfrPlus")
    /\ \E rew \in Vectors(Len(matcher.p), RewardValues) :
          Updated(IntVec(rew), PdcfrPlusUpdateRegret(matcher, IntVec(rew)))

Next ==
    \/ ConstructCfrPlus
    \/ ConstructDcfr
    \/ ConstructDcfrPlus
    \/ ConstructLinearCfr
    \/ ConstructPcfrPlus
    \/ ConstructPdcfrPlus
    \/ UpdateCfrPlus
    \/ UpdateDcfr
    \/ UpdateDcfrPlus
    \/ UpdateLinearCfr
    \/ UpdatePcfrPlus
    \/ UpdatePdcfrPlus

Spec == Init /\ [][Next]_vars

\* ------------------------------------------- index to RPSAction conversion
Min(a, b) == IF a < b THEN a ELSE b

Max(a, b) == IF a > b THEN a ELSE b

\* the conversion without the clamp: an index above Scissors is transmuted
\* into no action at all
RPSActionFromUnclamped(i) ==
    CASE i = 0 -> "Rock"
      [] i = 1 -> "Paper"
      [] i = 2 -> "Scissors"
      [] OTHER -> "Invalid"

\* impl From<usize> for RPSAction: the index is clamped into
\* [Rock as usize, Scissors as usize] and transmuted
RPSActionFrom(i) ==
    LET k == Max(Min(i, 2), 0)
    IN  CASE k = 0 -> "Rock"
          [] k = 1 -> "Paper"
          [] k = 2 -> "Scissors"

\* --------------------------------- the helper functions, called on their own
MatcherIdle ==
    /\ matcher = NoMatcher
    /\ status = "unconstructed"
    /\ requested = 0
    /\ rewards = <<>>
    /\ prev = NoMatcher
    /\ calls = 0

\* probability vectors of length n with denominator SampleDen
Simplex(n) ==
    {IntVec(v) : v \in {w \in Vectors(n, 0..SampleDen) :
                            SumTo(IntVec(w), n) = FromInt(SampleDen)}}

ProbVec(v) == [i \in 1..Len(v) |-> RDiv(v[i], FromInt(SampleDen))]

InitFn ==
    /\ MatcherIdle
    /\ twin = NoMatcher
    /\ HarnessIdle
    /\ fn_out = Pending
    /\ \/ \E n \in 1..MaxLen :
            \E regrets \in Vectors(n, RegretValues), p \in Vectors(n, BufferValues) :
                fn_in = [fn |-> "regret_match", regrets |-> IntVec(regrets),
                         p |-> IntVec(p)]
       \/ \E t \in 1..MaxT, exp \in Exps :
                fn_in = [fn |-> "discount_factor", t |-> t, exp |-> exp]
       \/ \E n \in 1..MaxLen :
            \E v \in Simplex(n), k \in 0..(2 * SampleDen - 1) :
                fn_in = [fn |-> "sample_action", p |-> ProbVec(v),
                         r |-> Norm(k, 2 * SampleDen)]
       \/ \E i \in 0..MaxIndex :
                fn_in = [fn |-> "RPSAction::from", i |-> i]

Returned(v) ==
    /\ ~fn_out.done
    /\ fn_out' = Done(v)
    /\ UNCHANGED <<matcher_vars, fn_in, twin, harness_vars>>

CallRegretMatch ==
    /\ fn_in.fn = "regret_match"
    /\ Returned(regret_match(fn_in.regrets, fn_in.p))

CallDiscountFactor ==
    /\ fn_in.fn = "discount_factor"
    /\ Returned(discount_factor(fn_in.t, fn_in.exp))

CallSampleAction ==
    /\ fn_in.fn = "sample_action"
    /\ Returned(sample_action(fn_in.p, fn_in.r))

CallRPSActionFrom ==
    /\ fn_in.fn = "RPSAction::from"
    /\ Returned(RPSActionFrom(fn_in.i))

NextFn ==
    \/ CallRegretMatch
    \/ CallDiscountFactor
    \/ CallSampleAction
    \/ CallRPSActionFrom

SpecFn == InitFn /\ [][NextFn]_vars

\* ------------------------------------- two objects fed the same rewards
\* DiscountedRegretMatcher::lcfr
DcfrLcfr(num_experts) == DcfrNewWithParams(num_experts, LCFR)

\* CFR+ as its documentation states it (regrets floored at zero when they
\* are accumulated): the state before the first reward
CfrPlusRecurrenceNew(num_experts) ==
    [variant |-> "CfrPlusRecurrence", R |-> Zeros(num_experts),
     p |-> init_weights(num_experts)]

\* one step of the recurrence R_i = max(0, R_i + r_i),
\* r_i = reward_i - dot(p, rewards), followed by regret matching on R
CfrPlusRecurrenceStep(ref, reward_array) ==
    LET r == VSubScalar(reward_array, dot(ref.p, reward_array))
        R == VMax0(VAdd(ref.R, r))
    IN  [ref EXCEPT !.R = R,
                    !.p = IF RLess(Zero, VSum(R)) THEN VDiv(R, VSum(R))
                          ELSE init_weights(Len(ref.p))]

InitTwin ==
    /\ \E n \in 1..MaxN :
          /\ requested = n
          /\ \/ /\ matcher = CfrPlusNew(n).m
                /\ twin = CfrPlusRecurrenceNew(n)
             \/ /\ matcher = DcfrLcfr(n).m
                /\ twin = LinearCfrNew(n).m
    /\ status = "ok"
    /\ rewards = <<>>
    /\ prev = NoMatcher
    /\ calls = 0
    /\ fn_in = NoCall
    /\ fn_out = Pending
    /\ HarnessIdle

\* both objects have taken the same reward slice
UpdatedBoth(reward_array, res, twin_next) ==
    /\ matcher' = res.m
    /\ status' = IF res.ok THEN "ok" ELSE "err"
    /\ rewards' = reward_array
    /\ prev' = matcher
    /\ calls' = calls + 1
    /\ twin' = twin_next
    /\ UNCHANGED <<requested, fn_vars, harness_vars>>

UpdateCfrPlusAndRecurrence ==
    /\ CanUpdate("CfrPlus")
    /\ \E rew \in Vectors(Len(matcher.p), RewardValues) :
          UpdatedBoth(IntVec(rew), CfrPlusUpdateRegret(matcher, IntVec(rew)),
                      CfrPlusRecurrenceStep(twin, IntVec(rew)))

UpdateLcfrAndLinearCfr ==
    /\ CanUpdate("Dcfr")
    /\ \E rew \in Vectors(Len(matcher.p), RewardValues) :
          UpdatedBoth(IntVec(rew), DcfrUpdateRegret(matcher, IntVec(rew)),
                      LinearCfrUpdateRegret(twin, IntVec(rew)).m)

NextTwin ==
    \/ UpdateCfrPlusAndRecurrence
    \/ UpdateLcfrAndLinearCfr

SpecTwin == InitTwin /\ [][NextTwin]_vars

\* ------------------------------------------ the Rock-Paper-Scissors harness
NumActions == 3

MaxRunOnes == 2
MaxFlushes == 2

ROCK_REWARD == IntVec(<<0, 1, -1>>)

PAPER_REWARD == IntVec(<<-1, 0, 1>>)

SCISSOR_REWARD == IntVec(<<1, -1, 0>>)

\* a table that pays a win and charges nothing for a loss
to_reward_wins_only(a) ==
    CASE a = "Rock" -> IntVec(<<0, 1, 0>>)
      [] a = "Paper" -> IntVec(<<0, 0, 1>>)
      [] a = "Scissors" -> IntVec(<<1, 0, 0>>)

\* RPSAction::to_reward
to_reward(a) ==
    CASE a = "Rock" -> ROCK_REWARD
      [] a = "Paper" -> PAPER_REWARD
      [] a = "Scissors" -> SCISSOR_REWARD

\* next_action: the zero-based indices dist.sample can return, those of
\* positive weight
next_action(m) ==
    {i - 1 : i \in {j \in 1..Len(m.dist) : RLess(Zero, m.dist[j])}}

\* RPSRunnerGeneric::new_with_matchers
new_with_matchers(matcher_one, matcher_two) ==
    [made |-> TRUE,
     matcher_one |-> matcher_one, matcher_two |-> matcher_two,
     pending_reward_one |-> Zeros(NumActions),
     pending_reward_two |-> Zeros(NumActions)]

\* a matcher of the given variant for the three actions
MatcherNew(variant, params) ==
    CASE variant = "CfrPlus" -> CfrPlusNew(NumActions)
      [] variant = "Dcfr" -> DcfrNewWithParams(NumActions, params)
      [] variant = "DcfrPlus" ->
            DcfrPlusNewWithParams(NumActions, params.alpha, params.gamma)
      [] variant = "LinearCfr" -> LinearCfrNew(NumActions)
      [] variant = "PcfrPlus" -> PcfrPlusNew(NumActions)
      [] variant = "PdcfrPlus" ->
            PdcfrPlusNewWithParams(NumActions, params.alpha, params.gamma)

\* run_one that credits each player with the row of its own action
run_one_own_rows(r, i1, i2) ==
    LET a1 == RPSActionFrom(i1)
        a2 == RPSActionFrom(i2)
    IN  [r EXCEPT !.pending_reward_one = VAdd(@, to_reward(a1)),
                  !.pending_reward_two = VAdd(@, to_reward(a2))]

\* RPSRunnerGeneric::run_one, the two matchers having sampled i1 and i2
run_one(r, i1, i2) ==
    LET a1 == RPSActionFrom(i1)
        a2 == RPSActionFrom(i2)
    IN  [r EXCEPT !.pending_reward_one = VAdd(@, to_reward(a2)),
                  !.pending_reward_two = VAdd(@, to_reward(a1))]

\* the harness after its two matcher updates returned one and two; each ?
\* returns early on an error, leaving the buffers as they are
AfterUpdates(r, one, two) ==
    IF ~one.ok
    THEN [ok |-> FALSE, r |-> [r EXCEPT !.matcher_one = one.m]]
    ELSE IF ~two.ok
    THEN [ok |-> FALSE, r |-> [r EXCEPT !.matcher_one = one.m,
                                        !.matcher_two = two.m]]
    ELSE [ok |-> TRUE,
          r |-> [r EXCEPT !.matcher_one = one.m,
                          !.matcher_two = two.m,
                          !.pending_reward_one = Zeros(NumActions),
                          !.pending_reward_two = Zeros(NumActions)]]

\* update_regret that hands each matcher the other player's buffer
RunnerUpdateRegretSwapped(r) ==
    AfterUpdates(r, update_regret(r.matcher_one, r.pending_reward_two),
                    update_regret(r.matcher_two, r.pending_reward_one))

\* update_regret that returns at once when nothing was played
RunnerUpdateRegretSkipsEmpty(r) ==
    IF /\ r.pending_reward_one = Zeros(NumActions)
       /\ r.pending_reward_two = Zeros(NumActions)
    THEN [ok |-> TRUE, r |-> r]
    ELSE AfterUpdates(r, update_regret(r.matcher_one, r.pending_reward_one),
                         update_regret(r.matcher_two, r.pending_reward_two))

\* RPSRunnerGeneric::update_regret
RunnerUpdateRegret(r) ==
    AfterUpdates(r, update_regret(r.matcher_one, r.pending_reward_one),
                    update_regret(r.matcher_two, r.pending_reward_two))

NewRunner ==
    /\ ~runner.made
    /\ \E variant \in Variants, params \in ParamChoices :
          \E one \in {MatcherNew(variant, params)},
             two \in {MatcherNew(variant, params)} :
              /\ one.ok
              /\ two.ok
              /\ runner' = new_with_matchers(one.m, two.m)
    /\ UNCHANGED <<matcher_vars, fn_vars, twin, runner_prev, last_op,
                   sampled, run_ones, flushes>>

RunOne ==
    /\ runner.made
    /\ last_op # "failed"
    /\ run_ones < MaxRunOnes
    /\ \E i1 \in next_action(runner.matcher_one),
          i2 \in next_action(runner.matcher_two) :
          /\ runner' = run_one(runner, i1, i2)
          /\ sampled' = Append(sampled,
                               <<RPSActionFrom(i1), RPSActionFrom(i2)>>)
    /\ runner_prev' = runner
    /\ last_op' = "run_one"
    /\ run_ones' = run_ones + 1
    /\ UNCHANGED <<matcher_vars, fn_vars, twin, flushes>>

Flush ==
    /\ runner.made
    /\ last_op # "failed"
    /\ flushes < MaxFlushes
    /\ \E res \in {RunnerUpdateRegret(runner)} :
          /\ runner' = res.r
          /\ last_op' = IF res.ok THEN "update_regret" ELSE "failed"
          /\ sampled' = IF res.ok THEN <<>> ELSE sampled
          /\ flushes' = IF res.ok THEN flushes + 1 ELSE flushes
    /\ runner_prev' = runner
    /\ UNCHANGED <<matcher_vars, fn_vars, twin, run_ones>>

NextRps ==
    \/ NewRunner
    \/ RunOne
    \/ Flush

SpecRps == Init /\ [][NextRps]_vars

\* ------------------------------------------------------------------- claims
Live == status = "ok"

NonNegative(v) == \A i \in 1..Len(v) : RLeq(Zero, v[i])

AllFinite(v) == \A i \in 1..Len(v) : IsFinite(v[i])

\* C1: for every variant, initially and after every update_regret call, every
\* component of the current strategy p is >= 0 and the components sum to 1.
StrategySimplex ==
    Live => /\ Len(matcher.p) >= 1
            /\ NonNegative(matcher.p)
            /\ VSum(matcher.p) = One

\* a matcher whose strategy has been derived from positive regrets twice
StrategySimplexWitness ==
    /\ Live /\ calls = 2
    /\ matcher.p # init_weights(Len(matcher.p))
    /\ prev.p # init_weights(Len(matcher.p))

\* C2: for every variant, in every reachable state, the components of
\* best_weight() sum to 1.
BestWeightSumsToOne ==
    Live => /\ AllFinite(best_weight(matcher))
            /\ VSum(best_weight(matcher)) = One

\* C3: for every variant, best_weight() is the cumulative strategy divided by
\* its total when the total is > 0 and the uniform distribution when the
\* total is <= 0.
BestWeightIsNormalisedCumulative ==
    Live =>
        LET total == VSum(matcher.sum_p)
        IN  \A i \in 1..Len(matcher.p) :
                best_weight(matcher)[i] =
                    IF RLess(Zero, total) THEN RDiv(matcher.sum_p[i], total)
                    ELSE Norm(1, Len(matcher.p))

\* C4: in the five DCFR-family variants num_updates is 0 after construction
\* and grows by exactly 1 in every update_regret call, so it equals the number
\* of calls.
FamilyCountsEveryUpdate ==
    (Live /\ matcher.variant # "CfrPlus") =>
        /\ matcher.num_updates = calls
        /\ calls > 0 => matcher.num_updates = prev.num_updates + 1

\* a second update of a family matcher that left every clipped regret at zero
FamilyCountsEveryUpdateWitness ==
    /\ Live /\ matcher.variant # "CfrPlus" /\ calls = 2
    /\ VSum(VMax0(matcher.cumulative_regret)) = Zero
    /\ matcher.num_updates = 2

\* C5: a CFR+ update_regret call leaves num_updates at 0 exactly when the sum
\* of the clipped regrets it computed is <= 0, and otherwise adds 1 to it.
CfrPlusResetsExactlyOnDegenerateRegret ==
    (Live /\ matcher.variant = "CfrPlus" /\ calls > 0) =>
        LET regret_sum == VSum(CfrPlusCapped(prev, rewards))
        IN  /\ (matcher.num_updates = 0) <=> RLeq(regret_sum, Zero)
            /\ RLess(Zero, regret_sum) =>
                   matcher.num_updates = prev.num_updates + 1

\* a counted call right after a call that took the reset path
CfrPlusResetThenCountedWitness ==
    /\ Live /\ matcher.variant = "CfrPlus" /\ calls = 2
    /\ prev.num_updates = 0 /\ prev.sum_p = Zeros(Len(prev.p))
    /\ matcher.num_updates = 1

UpdateNeverFails ==
    calls > 0 =>
        /\ status = "ok"
        /\ Len(matcher.p) >= 1
        /\ AllFinite(matcher.p)
        /\ NonNegative(matcher.p)
        /\ RLess(Zero, VSum(matcher.p))

\* a DCFR+ update handing the sampler a strategy with a zero weight, after an
\* update that took the uniform fallback
UpdateNeverFailsWitness ==
    /\ Live /\ matcher.variant = "DcfrPlus" /\ calls = 2
    /\ VSum(prev.cumulative_regret) = Zero
    /\ \E i \in 1..Len(matcher.p) : matcher.p[i] = Zero

FnReturned(name) == fn_in.fn = name /\ fn_out.done

\* C8: regret_match sets p[i] = max(0, regrets[i]) / S, S the sum of the
\* clipped regrets, when S > 0, and p[i] = 1/N when S <= 0.
RegretMatchCorrect ==
    FnReturned("regret_match") =>
        LET n == Len(fn_in.regrets)
            S == SumTo([i \in 1..n |-> Max0(fn_in.regrets[i])], n)
        IN  /\ Len(fn_out.value) = n
            /\ \A i \in 1..n :
                  fn_out.value[i] =
                      IF RLess(Zero, S) THEN RDiv(Max0(fn_in.regrets[i]), S)
                      ELSE Norm(1, n)

RegretMatchMixedWitness ==
    /\ FnReturned("regret_match")
    /\ fn_in.regrets = IntVec(<<-5, 3, 7>>)
    /\ fn_out.value = <<Zero, Norm(3, 10), Norm(7, 10)>>

SampleActionInSupport ==
    FnReturned("sample_action") =>
        LET a == fn_out.value
        IN  /\ a >= 0 /\ a < Len(fn_in.p)
            /\ fn_in.p[a + 1] # Zero
            /\ fn_in.p = <<Zero, Zero, One>> => a = 2

SampleActionWitness ==
    /\ FnReturned("sample_action")
    /\ fn_in.p = <<Zero, Zero, One>>
    /\ fn_in.r = Zero
    /\ fn_out.value = 2

\* C11: a successful harness update_regret has applied matcher_one's update
\* exactly once to pending_reward_one and matcher_two's update exactly once
\* to pending_reward_two, each buffer as it was before the call, and has
\* left both buffers all zeros, however many run_one calls preceded it.
FlushFeedsEachMatcherItsOwnBuffer ==
    last_op = "update_regret" =>
        /\ runner.matcher_one =
              update_regret(runner_prev.matcher_one,
                            runner_prev.pending_reward_one).m
        /\ runner.matcher_two =
              update_regret(runner_prev.matcher_two,
                            runner_prev.pending_reward_two).m
        /\ runner.pending_reward_one = Zeros(NumActions)
        /\ runner.pending_reward_two = Zeros(NumActions)

\* a flush after two run_one calls that left the two buffers different and
\* non-zero; the two matchers have moved apart
FlushFeedsEachMatcherItsOwnBufferWitness ==
    /\ last_op = "update_regret"
    /\ run_ones = 2
    /\ runner_prev.pending_reward_one # Zeros(NumActions)
    /\ runner_prev.pending_reward_two # Zeros(NumActions)
    /\ runner_prev.pending_reward_one # runner_prev.pending_reward_two
    /\ runner.matcher_one.p # runner.matcher_two.p

\* the sum of the payoff rows of the actions at position k of the pairs in log
RECURSIVE SumRows(_, _)
SumRows(log, k) ==
    IF log = <<>> THEN Zeros(NumActions)
    ELSE VAdd(SumRows(SubSeq(log, 1, Len(log) - 1), k),
              to_reward(log[Len(log)][k]))

\* C12: run_one, with a1 sampled by matcher_one and a2 by matcher_two, adds
\* the payoff row of a2 to pending_reward_one and the row of a1 to
\* pending_reward_two and changes no matcher; so in every state each buffer
\* is the sum of the opponent's rows over the run_one calls since the last
\* flush.
RunOneAddsOpponentRows ==
    /\ last_op = "run_one" =>
          LET a1 == sampled[Len(sampled)][1]
              a2 == sampled[Len(sampled)][2]
          IN  /\ a1 \in {RPSActionFrom(i) :
                            i \in next_action(runner_prev.matcher_one)}
              /\ a2 \in {RPSActionFrom(i) :
                            i \in next_action(runner_prev.matcher_two)}
              /\ runner.pending_reward_one =
                    VAdd(runner_prev.pending_reward_one, to_reward(a2))
              /\ runner.pending_reward_two =
                    VAdd(runner_prev.pending_reward_two, to_reward(a1))
              /\ runner.matcher_one = runner_prev.matcher_one
              /\ runner.matcher_two = runner_prev.matcher_two
    /\ (runner.made /\ last_op # "failed") =>
          /\ runner.pending_reward_one = SumRows(sampled, 2)
          /\ runner.pending_reward_two = SumRows(sampled, 1)

\* two run_one calls since the last flush, the second with different
\* actions on the two sides, after an earlier flush
RunOneAddsOpponentRowsWitness ==
    /\ last_op = "run_one"
    /\ flushes = 1
    /\ Len(sampled) = 2
    /\ sampled[2][1] # sampled[2][2]
    /\ sampled[1] # sampled[2]

\* C14: on every reward sequence without a reset, the clipped regrets
\* max(0, expert_reward_i - cumulative_reward) a CFR+ update computes equal
\* the R_i of the recurrence R_i = max(0, R_i + r_i) run on the same
\* rewards, and the two strategies are equal.
CfrPlusIsClipAfterAccumulate ==
    (/\ matcher.variant = "CfrPlus"
     /\ twin.variant = "CfrPlusRecurrence"
     /\ calls > 0
     /\ matcher.num_updates = calls) =>
        /\ VMax0(VSubScalar(matcher.expert_reward, matcher.cumulative_reward))
              = twin.R
        /\ matcher.p = twin.p

Family == {"Dcfr", "DcfrPlus", "LinearCfr", "PcfrPlus", "PdcfrPlus"}

\* the cumulative regret a DCFR-family update of m with reward_array stores
FamilyStoredRegret(m, reward_array) ==
    CASE m.variant = "Dcfr" -> DcfrRegret(m, reward_array)
      [] m.variant = "DcfrPlus" -> DcfrPlusRegret(m, reward_array)
      [] m.variant = "LinearCfr" ->
            VAdd(m.cumulative_regret,
                 VScale(InstantaneousRegret(m, reward_array),
                        FromInt(m.num_updates + 1)))
      [] m.variant = "PcfrPlus" -> PcfrPlusRegret(m, reward_array)
      [] m.variant = "PdcfrPlus" -> DcfrPlusRegret(m, reward_array)

\* the clipped (DCFR, DCFR+, Linear CFR) or predicted (PCFR+, PDCFR+)
\* regrets the update derives its strategy from
FamilyStrategyRegret(m, reward_array) ==
    LET R == FamilyStoredRegret(m, reward_array)
        v == InstantaneousRegret(m, reward_array)
    IN  CASE m.variant \in {"Dcfr", "DcfrPlus", "LinearCfr"} -> VMax0(R)
          [] m.variant = "PcfrPlus" -> VMax0(VAdd(R, v))
          [] m.variant = "PdcfrPlus" ->
                VMax0(VAdd(VScale(R, discount_factor(m.num_updates + 1,
                                                     m.params.alpha)), v))

\* the cumulative strategy after the update has chosen strategy p
FamilyAveraged(m, p) ==
    LET t == m.num_updates + 1
    IN  CASE m.variant = "Dcfr" ->
                VAdd(VScale(m.sum_p,
                            Powf(RDiv(FromInt(t), FromInt(t + 1)),
                                 m.params.gamma)), p)
          [] m.variant \in {"DcfrPlus", "PdcfrPlus"} ->
                VAdd(VScale(m.sum_p, PlusStrategyDiscount(m)), p)
          [] m.variant = "LinearCfr" -> VAdd(m.sum_p, VScale(p, FromInt(t)))
          [] m.variant = "PcfrPlus" -> VAdd(m.sum_p, VScale(p, FromInt(t * t)))

\* the last call was an update of a DCFR-family matcher that found no
\* positive clipped / predicted regret
FamilyFellBack ==
    /\ Live
    /\ calls > 0
    /\ prev.variant \in Family
    /\ RLeq(VSum(FamilyStrategyRegret(prev, rewards)), Zero)

\* C15: a DCFR-family update whose clipped / predicted regrets total <= 0
\* only sets the strategy to uniform: the cumulative regret keeps the value
\* the variant computed (it is not zeroed), sum_p takes the variant's usual
\* averaging step with the uniform strategy (it is not zeroed), and
\* num_updates grows by one.
FallbackOnlySetsUniform ==
    FamilyFellBack =>
        /\ matcher.p = uniform_weights(Len(prev.p))
        /\ matcher.cumulative_regret = FamilyStoredRegret(prev, rewards)
        /\ matcher.sum_p = FamilyAveraged(prev, uniform_weights(Len(prev.p)))
        /\ matcher.num_updates = prev.num_updates + 1
        /\ matcher.variant = prev.variant
        /\ matcher.params = prev.params

\* a second fallback in a row on two experts: sum_p already holds the
\* first uniform strategy and keeps it
FallbackOnlySetsUniformWitness ==
    /\ FamilyFellBack
    /\ prev.num_updates = 1
    /\ Len(prev.p) = 2
    /\ VSum(prev.sum_p) # Zero
    /\ matcher.num_updates = 2

\* the last call was a CFR+ update whose clipped regrets total <= 0
CfrPlusWasReset ==
    /\ Live
    /\ calls > 0
    /\ prev.variant = "CfrPlus"
    /\ RLeq(VSum(CfrPlusCapped(prev, rewards)), Zero)

\* C16: a CFR+ update whose clipped regrets total <= 0 leaves expert_reward
\* all zeros, cumulative_reward zero and p uniform, so that whatever reward
\* comes next, the update computes the clipped regrets, the accumulated
\* rewards and the strategy that the first update of a fresh matcher
\* computes.
CfrPlusResetStartsAfresh ==
    CfrPlusWasReset =>
        LET n == Len(prev.p)
            fresh == CfrPlusNew(n).m
        IN  /\ matcher.expert_reward = Zeros(n)
            /\ matcher.cumulative_reward = Zero
            /\ matcher.p = uniform_weights(n)
            /\ \A rew \in Vectors(n, RewardValues) :
                  LET mine == CfrPlusUpdateRegret(matcher, IntVec(rew)).m
                      first == CfrPlusUpdateRegret(fresh, IntVec(rew)).m
                  IN  /\ CfrPlusCapped(matcher, IntVec(rew))
                            = CfrPlusCapped(fresh, IntVec(rew))
                      /\ mine.expert_reward = first.expert_reward
                      /\ mine.cumulative_reward = first.cumulative_reward
                      /\ mine.p = first.p

\* a reset caused by two equal non-zero rewards
CfrPlusResetStartsAfreshWitness ==
    /\ CfrPlusWasReset
    /\ Len(rewards) = 2
    /\ rewards[1] # Zero
    /\ matcher.num_updates = 0

\* the factor a DCFR, DCFR+ or PDCFR+ update multiplies sum_p by
StrategyDiscount(m) ==
    LET t == m.num_updates + 1
    IN  IF m.variant = "Dcfr"
        THEN Powf(RDiv(FromInt(t), FromInt(t + 1)), m.params.gamma)
        ELSE PlusStrategyDiscount(m)

\* C17: across an update_regret of CFR+, Linear CFR or PCFR+ (the CFR+
\* reset path included) the total of sum_p never decreases; in DCFR, DCFR+
\* and PDCFR+ the only thing that can lower it is the multiplication by the
\* strategy discount, a factor in [0, 1], after which the new strategy is
\* added.
SumPTotalDecreasesOnlyByDiscount ==
    (Live /\ calls > 0) =>
        /\ prev.variant \in {"CfrPlus", "LinearCfr", "PcfrPlus"} =>
              RLeq(VSum(prev.sum_p), VSum(matcher.sum_p))
        /\ prev.variant \in {"Dcfr", "DcfrPlus", "PdcfrPlus"} =>
              /\ RLeq(Zero, StrategyDiscount(prev))
              /\ RLeq(StrategyDiscount(prev), One)
              /\ matcher.sum_p =
                    VAdd(VScale(prev.sum_p, StrategyDiscount(prev)), matcher.p)

\* the second update of a PCFR+ matcher: the total grows from 1 to 5
SumPTotalDecreasesOnlyByDiscountWitness ==
    /\ Live
    /\ calls = 2
    /\ prev.variant = "PcfrPlus"
    /\ VSum(prev.sum_p) = One
    /\ VSum(matcher.sum_p) = FromInt(5)

\* C18: in every state between operations the weights the sampler dist was
\* built from are exactly the current strategy p.
DistBuiltFromCurrentStrategy ==
    matcher.variant \in Variants => matcher.dist = matcher.p

\* two updates, each of which changed the strategy
DistBuiltFromCurrentStrategyWitness ==
    /\ Live
    /\ calls = 2
    /\ prev.p # uniform_weights(Len(prev.p))
    /\ matcher.p # prev.p
    /\ matcher.p # uniform_weights(Len(prev.p))

\* C19: a DiscountedRegretMatcher built by lcfr and a LinearCfrRegretMatcher
\* of the same size, fed the same rewards, have the same current strategy
\* after every update.
LcfrMatchesLinearCfr ==
    (matcher.variant = "Dcfr" /\ twin.variant = "LinearCfr") =>
        matcher.p = twin.p

\* t^exp / (t^exp + 1)
DcfrD(t, exp) ==
    RDiv(Powf(FromInt(t), exp), RAdd(Powf(FromInt(t), exp), One))

\* C20: the DCFR update number t = num_updates + 1 turns each cumulative
\* regret R_i into R_i * d(t, alpha) + r_i when R_i > 0 before the call and
\* into R_i * d(t, beta) + r_i otherwise, with
\* r_i = reward_i - dot(p, rewards) for the strategy p before the call; the
\* stored value is not clipped.
DcfrRegretRule ==
    (Live /\ calls > 0 /\ prev.variant = "Dcfr") =>
        LET t == prev.num_updates + 1
            expected == dot(prev.p, rewards)
        IN  \A i \in 1..Len(prev.p) :
                LET R == prev.cumulative_regret[i]
                    r == RSub(rewards[i], expected)
                IN  matcher.cumulative_regret[i] =
                        IF RLess(Zero, R)
                        THEN RAdd(RMul(R, DcfrD(t, prev.params.alpha)), r)
                        ELSE RAdd(RMul(R, DcfrD(t, prev.params.beta)), r)

\* a second update with alpha # beta that discounted one positive and one
\* negative regret and stored a negative one
DcfrRegretRuleWitness ==
    /\ Live
    /\ calls = 2
    /\ prev.variant = "Dcfr"
    /\ prev.params.alpha # prev.params.beta
    /\ \E i \in 1..Len(prev.p) : RLess(Zero, prev.cumulative_regret[i])
    /\ \E i \in 1..Len(prev.p) : RLess(prev.cumulative_regret[i], Zero)
    /\ \E i \in 1..Len(prev.p) : RLess(matcher.cumulative_regret[i], Zero)

\* C21: the DCFR update number t = num_updates + 1 sets sum_p to
\* sum_p * (t/(t+1))^gamma + p_new, p_new being the strategy derived in the
\* same call; so the total of sum_p becomes (t/(t+1))^gamma times its
\* previous total plus 1.
DcfrAverageRule ==
    (Live /\ calls > 0 /\ prev.variant = "Dcfr") =>
        LET t == prev.num_updates + 1
            discount == Powf(Norm(t, t + 1), prev.params.gamma)
        IN  /\ matcher.sum_p = VAdd(VScale(prev.sum_p, discount), matcher.p)
            /\ VSum(matcher.sum_p) = RAdd(RMul(discount, VSum(prev.sum_p)), One)

\* a second DCFR update with gamma = 2 that changed the strategy: the
\* first strategy is kept with weight 4/9
DcfrAverageRuleWitness ==
    /\ Live
    /\ calls = 2
    /\ prev.variant = "Dcfr"
    /\ prev.params.gamma = 2
    /\ matcher.p # prev.p
    /\ VSum(matcher.sum_p) = Norm(13, 9)

\* d(t-1, alpha), taken as 0 when t = 1
DcfrDPrev(t, alpha) == IF t > 1 THEN DcfrD(t - 1, alpha) ELSE Zero

\* C22: the DCFR+ update number t turns each cumulative regret into
\* max(0, R_i * d(t-1, alpha) + r_i), the discount being 0 when t = 1 and
\* the clip coming after the addition; so every component of the
\* cumulative regret of a DCFR+ matcher is >= 0 in every state.
DcfrPlusRegretRule ==
    /\ (Live /\ calls > 0 /\ prev.variant = "DcfrPlus") =>
          LET t == prev.num_updates + 1
              expected == dot(prev.p, rewards)
          IN  \A i \in 1..Len(prev.p) :
                  matcher.cumulative_regret[i] =
                      Max0(RAdd(RMul(prev.cumulative_regret[i],
                                     DcfrDPrev(t, prev.params.alpha)),
                                RSub(rewards[i], expected)))
    /\ matcher.variant = "DcfrPlus" => NonNegative(matcher.cumulative_regret)

\* a second DCFR+ update in which one regret was positive and has been
\* discounted, and another went below zero and has been clipped to 0
DcfrPlusRegretRuleWitness ==
    /\ Live
    /\ calls = 2
    /\ prev.variant = "DcfrPlus"
    /\ \E i \in 1..Len(prev.p) :
          /\ RLess(Zero, prev.cumulative_regret[i])
          /\ RLess(Zero, matcher.cumulative_regret[i])
          /\ RLess(matcher.cumulative_regret[i], prev.cumulative_regret[i])
    /\ \E i \in 1..Len(prev.p) :
          /\ RLess(RAdd(RMul(prev.cumulative_regret[i],
                             DcfrDPrev(2, prev.params.alpha)),
                        RSub(rewards[i], dot(prev.p, rewards))), Zero)
          /\ matcher.cumulative_regret[i] = Zero

\* C23: the DCFR+ and PDCFR+ update number t sets sum_p to
\* sum_p * ((t-1)/t)^gamma + p_new, the discount being 0 at t = 1; so after
\* the first update sum_p is the new strategy p and best_weight() is the
\* current strategy.
PlusAverageRule ==
    (Live /\ calls > 0 /\ prev.variant \in {"DcfrPlus", "PdcfrPlus"}) =>
        LET t == prev.num_updates + 1
            discount == IF t > 1 THEN Powf(Norm(t - 1, t), prev.params.gamma)
                        ELSE Zero
        IN  /\ matcher.sum_p = VAdd(VScale(prev.sum_p, discount), matcher.p)
            /\ t = 1 => /\ matcher.sum_p = matcher.p
                        /\ best_weight(matcher) = matcher.p

\* a second PDCFR+ update with gamma = 2 that changed the strategy: the
\* first strategy is kept with weight 1/4
PlusAverageRuleWitness ==
    /\ Live
    /\ calls = 2
    /\ prev.variant = "PdcfrPlus"
    /\ prev.params.gamma = 2
    /\ prev.sum_p = prev.p
    /\ matcher.p # prev.p
    /\ VSum(matcher.sum_p) = Norm(5, 4)

\* C24: the Linear CFR update number t turns each cumulative regret into
\* R_i + t * r_i, stored unclipped, and sum_p into sum_p + t * p_new; so
\* after n updates the total of sum_p is n(n+1)/2.
LinearCfrRule ==
    /\ (Live /\ calls > 0 /\ prev.variant = "LinearCfr") =>
          LET t == FromInt(prev.num_updates + 1)
              expected == dot(prev.p, rewards)
          IN  /\ \A i \in 1..Len(prev.p) :
                    matcher.cumulative_regret[i] =
                        RAdd(prev.cumulative_regret[i],
                             RMul(t, RSub(rewards[i], expected)))
              /\ matcher.sum_p = VAdd(prev.sum_p, VScale(matcher.p, t))
    /\ (Live /\ matcher.variant = "LinearCfr") =>
          VSum(matcher.sum_p)
              = Norm(matcher.num_updates * (matcher.num_updates + 1), 2)

\* a second Linear CFR update that changed the strategy and left a
\* negative regret stored; the total of sum_p is 3
LinearCfrRuleWitness ==
    /\ Live
    /\ calls = 2
    /\ prev.variant = "LinearCfr"
    /\ matcher.p # prev.p
    /\ \E i \in 1..Len(prev.p) : RLess(matcher.cumulative_regret[i], Zero)
    /\ VSum(matcher.sum_p) = FromInt(3)

\* the strategy regret matching derives from the regrets v: v over its
\* total, or uniform when the total is <= 0
Matched(v) ==
    IF RLeq(VSum(v), Zero) THEN uniform_weights(Len(v))
    ELSE [i \in 1..Len(v) |-> RDiv(v[i], VSum(v))]

\* C25: a PCFR+ update first sets R_i = max(0, R_i + r_i) and then takes
\* its strategy from the predicted regret max(0, R_i + r_i) of the updated
\* R_i and the same r_i: the normalised predicted regret, or uniform when
\* its total is <= 0; the stored regret is >= 0 in every state.
PcfrPlusRule ==
    /\ (Live /\ calls > 0 /\ prev.variant = "PcfrPlus") =>
          LET expected == dot(prev.p, rewards)
              r == [i \in 1..Len(prev.p) |-> RSub(rewards[i], expected)]
              stored == [i \in 1..Len(prev.p) |->
                            Max0(RAdd(prev.cumulative_regret[i], r[i]))]
              predicted == [i \in 1..Len(prev.p) |->
                               Max0(RAdd(stored[i], r[i]))]
          IN  /\ matcher.cumulative_regret = stored
              /\ matcher.p = Matched(predicted)
    /\ matcher.variant = "PcfrPlus" => NonNegative(matcher.cumulative_regret)

\* a second PCFR+ update whose strategy differs from the one the stored
\* regret alone would give
PcfrPlusRuleWitness ==
    /\ Live
    /\ calls = 2
    /\ prev.variant = "PcfrPlus"
    /\ RLess(Zero, VSum(matcher.cumulative_regret))
    /\ matcher.p # Matched(matcher.cumulative_regret)
    /\ matcher.p # uniform_weights(Len(prev.p))

\* C26: the PCFR+ update number t sets sum_p to sum_p + t^2 * p_new; so
\* after n updates the total of sum_p is n(n+1)(2n+1)/6.
PcfrPlusAverageRule ==
    /\ (Live /\ calls > 0 /\ prev.variant = "PcfrPlus") =>
          LET t == prev.num_updates + 1
          IN  matcher.sum_p = VAdd(prev.sum_p, VScale(matcher.p, FromInt(t * t)))
    /\ (Live /\ matcher.variant = "PcfrPlus") =>
          LET n == matcher.num_updates
          IN  VSum(matcher.sum_p) = Norm(n * (n + 1) * (2 * n + 1), 6)

\* two PCFR+ updates with different strategies: the second one weighs 4
PcfrPlusAverageRuleWitness ==
    /\ Live
    /\ calls = 2
    /\ matcher.variant = "PcfrPlus"
    /\ matcher.num_updates = 2
    /\ matcher.p # prev.p
    /\ matcher.sum_p = VAdd(prev.p, VScale(matcher.p, FromInt(4)))

\* C27: the PDCFR+ update number t stores
\* R_i = max(0, R_i * d(t-1, alpha) + r_i), the discount being 0 at t = 1,
\* and takes its strategy from the predicted regret
\* max(0, R_i * d(t, alpha) + r_i) of the updated R_i: normalised, or
\* uniform when its total is <= 0.
PdcfrPlusRule ==
    (Live /\ calls > 0 /\ prev.variant = "PdcfrPlus") =>
        LET t == prev.num_updates + 1
            expected == dot(prev.p, rewards)
            r == [i \in 1..Len(prev.p) |-> RSub(rewards[i], expected)]
            stored == [i \in 1..Len(prev.p) |->
                          Max0(RAdd(RMul(prev.cumulative_regret[i],
                                         DcfrDPrev(t, prev.params.alpha)),
                                    r[i]))]
            predicted == [i \in 1..Len(prev.p) |->
                             Max0(RAdd(RMul(stored[i],
                                            DcfrD(t, prev.params.alpha)),
                                       r[i]))]
        IN  /\ matcher.cumulative_regret = stored
            /\ matcher.p = Matched(predicted)

\* a second PDCFR+ update that discounted a positive regret and derived a
\* mixed strategy which is not the one of the stored regret
PdcfrPlusRuleWitness ==
    /\ Live
    /\ calls = 2
    /\ prev.variant = "PdcfrPlus"
    /\ RLess(Zero, VSum(prev.cumulative_regret))
    /\ RLess(Zero, VSum(matcher.cumulative_regret))
    /\ matcher.p # Matched(matcher.cumulative_regret)
    /\ \A i \in 1..Len(prev.p) : RLess(Zero, matcher.p[i])

\* C30: the conversion of an index to an action clamps the index to
\* [0, 2]: 0 gives Rock, 1 gives Paper and every index >= 2 gives
\* Scissors; every index is converted and the result is one of the three
\* actions.
RPSActionFromClamps ==
    FnReturned("RPSAction::from") =>
        /\ fn_out.value \in {"Rock", "Paper", "Scissors"}
        /\ fn_in.i = 0 => fn_out.value = "Rock"
        /\ fn_in.i = 1 => fn_out.value = "Paper"
        /\ fn_in.i >= 2 => fn_out.value = "Scissors"

\* an index above 2 has been converted
RPSActionFromClampsWitness ==
    /\ FnReturned("RPSAction::from")
    /\ fn_in.i > 2
    /\ fn_out.value = "Scissors"

RPSActions == {"Rock", "Paper", "Scissors"}

\* the position of an action in a reward vector (its discriminant, counted
\* from 1)
ActionIndex(a) ==
    CASE a = "Rock" -> 1
      [] a = "Paper" -> 2
      [] a = "Scissors" -> 3

\* C28: the payoff table is zero-sum: with pay(o)[m] the reward of playing
\* m against o, pay(a)[b] + pay(b)[a] = 0 for all actions a and b, and
\* every row sums to 0; so in every harness state the components of each
\* pending-reward buffer sum to 0.
PayoffZeroSum ==
    /\ \A a \in RPSActions, b \in RPSActions :
          RAdd(to_reward(a)[ActionIndex(b)], to_reward(b)[ActionIndex(a)])
              = Zero
    /\ \A a \in RPSActions : VSum(to_reward(a)) = Zero
    /\ runner.made =>
          /\ VSum(runner.pending_reward_one) = Zero
          /\ VSum(runner.pending_reward_two) = Zero

\* two run_one calls since a flush have left both buffers non-zero
PayoffZeroSumWitness ==
    /\ runner.made
    /\ last_op = "run_one"
    /\ flushes = 1
    /\ Len(sampled) = 2
    /\ runner.pending_reward_one # Zeros(NumActions)
    /\ runner.pending_reward_two # Zeros(NumActions)

\* C29: in a harness over a DCFR-family variant, after any interleaving of
\* run_one and update_regret calls both matchers' num_updates equal the
\* number of harness update_regret calls made; run_one changes neither
\* counter and a flush of empty buffers counts on both sides.
HarnessCountsFlushes ==
    (/\ runner.made
     /\ runner.matcher_one.variant \in Family
     /\ last_op # "failed") =>
        /\ runner.matcher_one.num_updates = flushes
        /\ runner.matcher_two.num_updates = flushes
        /\ last_op = "run_one" =>
              /\ runner.matcher_one.num_updates
                    = runner_prev.matcher_one.num_updates
              /\ runner.matcher_two.num_updates
                    = runner_prev.matcher_two.num_updates

\* run_one, a flush, then a second flush with both buffers empty
HarnessCountsFlushesWitness ==
    /\ runner.made
    /\ runner.matcher_one.variant \in Family
    /\ last_op = "update_regret"
    /\ run_ones >= 1
    /\ flushes = 2
    /\ runner_prev.pending_reward_one = Zeros(NumActions)
    /\ runner_prev.pending_reward_two = Zeros(NumActions)
    /\ runner.matcher_one.num_updates = 2
====
